---------------------------- MODULE Spec2Model ----------------------------
(***************************************************************************)
(* Model of napcat-plugin-manborvc: the fixed-window rate limiter          *)
(* ManboRateLimiter of src/services/manbo-service.ts and the voice gate    *)
(* generateManboVoice that consumes it.                                    *)
(*                                                                         *)
(* Time is Date.now() in milliseconds.  Only differences of clock values   *)
(* enter the code, so the clock starts at 0 and moves forward over a grid  *)
(* of instants with the elapsed times 1, 59999 and 60000 between them.     *)
(***************************************************************************)
EXTENDS Integers, Sequences, FiniteSets

VARIABLES
    requests,   \* ManboRateLimiter.requests: Map<string, RateLimitEntry>
    now,        \* the value Date.now() returns
    rateLimit,  \* pluginState.config.manboRateLimit ?? -1
    apiUrl,     \* pluginState.config.manboApiUrl, by the kind of value it holds
    pc,         \* where each invocation of generateManboVoice stands
    last,       \* history: the limiter call that produced this state
    gate,       \* history: the step of generateManboVoice that produced this state
    log         \* history: the check calls of a logged run, oldest first

vars == <<requests, now, rateLimit, apiUrl, pc, last, gate, log>>

(***************************** bounds **************************************)
MaxLimit == 2      \* positive limits of the calls are 1..MaxLimit
MaxRateLimit == 3  \* positive configured limits are 1..MaxRateLimit
MaxWindows == 1    \* the clock grid holds the starts of windows 0..MaxWindows
MaxLog == 4        \* check calls recorded by a logged run

(************************** program constants ******************************)
windowSize == 60000

Keys == {"group:1", "group:2", "global"}

\* The invocations of generateManboVoice that may be in flight together.
Procs == {"p1", "p2"}

\* The groupId argument: absent, or a number (0 is a number that is falsy).
NoGroup == -1
GroupIds == {NoGroup, 0, 1, 2}

\* config.manboApiUrl: undefined, only white space, a string new URL() accepts,
\* a non-empty string new URL() rejects.
ApiUrls == {"undefined", "blank", "url", "malformed"}

\* config.manboRateLimit as the gate reads it.
ConfigLimits == {-1, 0} \cup (1..MaxLimit)

\* The values the limit argument ranges over: -1 (unlimited), 0 (disabled)
\* and the positive limits.
Limits == {-1, 0} \cup (1..MaxLimit)

PositiveLimits == 1..MaxLimit

\* The instants the clock takes: the start of every window counted from 0,
\* and the last millisecond of the first one.
TimeGrid == {windowSize - 1} \cup {w * windowSize : w \in 0..MaxWindows}

Max(a, b) == IF a >= b THEN a ELSE b

(************************ Map<string, RateLimitEntry> **********************)
\* The map is a function whose domain is the set of keys that have an entry.
MapHas(m, key) == key \in DOMAIN m

MapSet(m, key, entry) ==
    [k \in (DOMAIN m) \cup {key} |-> IF k = key THEN entry ELSE m[k]]

MapDelete(m, key) == [k \in (DOMAIN m) \ {key} |-> m[k]]

MapClear == [k \in {} |-> [count |-> 0, windowStart |-> 0]]

\* The part of map m that concerns key: empty, or the one entry of key.
Only(m, key) == [k \in (DOMAIN m) \cap {key} |-> m[k]]

Expired(entry) == now - entry.windowStart >= windowSize

(***************************** check ***************************************)
\* Faulty variants of check; each breaks one of the properties stated below.
check_unlimitedTouches(key, limit) ==
    IF limit = -1
    THEN [ret |-> TRUE, requests |-> MapSet(requests, key, [count |-> 1, windowStart |-> now])]
    ELSE IF limit = 0 THEN [ret |-> FALSE, requests |-> requests]
    ELSE IF ~MapHas(requests, key) \/ Expired(requests[key])
    THEN [ret |-> TRUE, requests |-> MapSet(requests, key, [count |-> 1, windowStart |-> now])]
    ELSE IF requests[key].count >= limit THEN [ret |-> FALSE, requests |-> requests]
    ELSE [ret |-> TRUE,
          requests |-> MapSet(requests, key, [count |-> requests[key].count + 1,
                                              windowStart |-> requests[key].windowStart])]

check_zeroFallsThrough(key, limit) ==
    IF limit = -1 THEN [ret |-> TRUE, requests |-> requests]
    ELSE IF ~MapHas(requests, key) \/ Expired(requests[key])
    THEN [ret |-> TRUE, requests |-> MapSet(requests, key, [count |-> 1, windowStart |-> now])]
    ELSE IF requests[key].count >= limit THEN [ret |-> FALSE, requests |-> requests]
    ELSE [ret |-> TRUE,
          requests |-> MapSet(requests, key, [count |-> requests[key].count + 1,
                                              windowStart |-> requests[key].windowStart])]

check_offByOne(key, limit) ==
    IF limit = -1 THEN [ret |-> TRUE, requests |-> requests]
    ELSE IF limit = 0 THEN [ret |-> FALSE, requests |-> requests]
    ELSE IF ~MapHas(requests, key) \/ Expired(requests[key])
    THEN [ret |-> TRUE, requests |-> MapSet(requests, key, [count |-> 1, windowStart |-> now])]
    ELSE IF requests[key].count > limit THEN [ret |-> FALSE, requests |-> requests]
    ELSE [ret |-> TRUE,
          requests |-> MapSet(requests, key, [count |-> requests[key].count + 1,
                                              windowStart |-> requests[key].windowStart])]

check_strictExpiry(key, limit) ==
    IF limit = -1 THEN [ret |-> TRUE, requests |-> requests]
    ELSE IF limit = 0 THEN [ret |-> FALSE, requests |-> requests]
    ELSE IF ~MapHas(requests, key) \/ now - requests[key].windowStart > windowSize
    THEN [ret |-> TRUE, requests |-> MapSet(requests, key, [count |-> 1, windowStart |-> now])]
    ELSE IF requests[key].count >= limit THEN [ret |-> FALSE, requests |-> requests]
    ELSE [ret |-> TRUE,
          requests |-> MapSet(requests, key, [count |-> requests[key].count + 1,
                                              windowStart |-> requests[key].windowStart])]

check_sharedWindow(key, limit) ==
    IF limit = -1 THEN [ret |-> TRUE, requests |-> requests]
    ELSE IF limit = 0 THEN [ret |-> FALSE, requests |-> requests]
    ELSE IF ~MapHas(requests, key) \/ Expired(requests[key])
    THEN [ret |-> TRUE,
          requests |-> [k \in (DOMAIN requests) \cup {key} |->
                            [count |-> 1, windowStart |-> now]]]
    ELSE IF requests[key].count >= limit THEN [ret |-> FALSE, requests |-> requests]
    ELSE [ret |-> TRUE,
          requests |-> MapSet(requests, key, [count |-> requests[key].count + 1,
                                              windowStart |-> requests[key].windowStart])]

\* ManboRateLimiter.check(key, limit): the value returned and the map it leaves.
\* check that restarts the count of an expired entry and keeps its windowStart.
check_keepsWindowStart(key, limit) ==
    IF limit = -1 THEN [ret |-> TRUE, requests |-> requests]
    ELSE IF limit = 0 THEN [ret |-> FALSE, requests |-> requests]
    ELSE IF ~MapHas(requests, key)
    THEN [ret |-> TRUE,
          requests |-> MapSet(requests, key, [count |-> 1, windowStart |-> now])]
    ELSE IF Expired(requests[key])
    THEN [ret |-> TRUE,
          requests |-> MapSet(requests, key, [count |-> 1,
                                              windowStart |-> requests[key].windowStart])]
    ELSE IF requests[key].count >= limit
    THEN [ret |-> FALSE, requests |-> requests]
    ELSE [ret |-> TRUE,
          requests |-> MapSet(requests, key, [count |-> requests[key].count + 1,
                                              windowStart |-> requests[key].windowStart])]

\* check whose denial restarts the window of the key.
check_denialRestartsWindow(key, limit) ==
    IF limit = -1 THEN [ret |-> TRUE, requests |-> requests]
    ELSE IF limit = 0 THEN [ret |-> FALSE, requests |-> requests]
    ELSE IF ~MapHas(requests, key) \/ Expired(requests[key])
    THEN [ret |-> TRUE,
          requests |-> MapSet(requests, key, [count |-> 1, windowStart |-> now])]
    ELSE IF requests[key].count >= limit
    THEN [ret |-> FALSE,
          requests |-> MapSet(requests, key, [count |-> requests[key].count,
                                              windowStart |-> now])]
    ELSE [ret |-> TRUE,
          requests |-> MapSet(requests, key, [count |-> requests[key].count + 1,
                                              windowStart |-> requests[key].windowStart])]

\* check that records a call denied by limit 0 as an entry with no count.
check_recordsDenial(key, limit) ==
    IF limit = -1 THEN [ret |-> TRUE, requests |-> requests]
    ELSE IF limit = 0
    THEN [ret |-> FALSE,
          requests |-> MapSet(requests, key, [count |-> 0, windowStart |-> now])]
    ELSE IF ~MapHas(requests, key) \/ Expired(requests[key])
    THEN [ret |-> TRUE,
          requests |-> MapSet(requests, key, [count |-> 1, windowStart |-> now])]
    ELSE IF requests[key].count >= limit
    THEN [ret |-> FALSE, requests |-> requests]
    ELSE [ret |-> TRUE,
          requests |-> MapSet(requests, key, [count |-> requests[key].count + 1,
                                              windowStart |-> requests[key].windowStart])]

\* check that does not count the call that opens a window.
check_freeOpener(key, limit) ==
    IF limit = -1 THEN [ret |-> TRUE, requests |-> requests]
    ELSE IF limit = 0 THEN [ret |-> FALSE, requests |-> requests]
    ELSE IF ~MapHas(requests, key) \/ Expired(requests[key])
    THEN [ret |-> TRUE,
          requests |-> MapSet(requests, key, [count |-> 0, windowStart |-> now])]
    ELSE IF requests[key].count >= limit
    THEN [ret |-> FALSE, requests |-> requests]
    ELSE [ret |-> TRUE,
          requests |-> MapSet(requests, key, [count |-> requests[key].count + 1,
                                              windowStart |-> requests[key].windowStart])]

\* check with a lost update: a call accepted inside an open window returns
\* true and leaves the count as it read it.
check_lostUpdate(key, limit) ==
    IF limit = -1 THEN [ret |-> TRUE, requests |-> requests]
    ELSE IF limit = 0 THEN [ret |-> FALSE, requests |-> requests]
    ELSE IF ~MapHas(requests, key) \/ Expired(requests[key])
    THEN [ret |-> TRUE,
          requests |-> MapSet(requests, key, [count |-> 1, windowStart |-> now])]
    ELSE IF requests[key].count >= limit
    THEN [ret |-> FALSE, requests |-> requests]
    ELSE [ret |-> TRUE, requests |-> requests]

check(key, limit) ==
    IF limit = -1 THEN [ret |-> TRUE, requests |-> requests]
    ELSE IF limit = 0 THEN [ret |-> FALSE, requests |-> requests]
    ELSE IF ~MapHas(requests, key) \/ Expired(requests[key])
    THEN [ret |-> TRUE, requests |-> MapSet(requests, key, [count |-> 1, windowStart |-> now])]
    ELSE IF requests[key].count >= limit THEN [ret |-> FALSE, requests |-> requests]
    ELSE [ret |-> TRUE,
          requests |-> MapSet(requests, key, [count |-> requests[key].count + 1,
                                              windowStart |-> requests[key].windowStart])]

(*************************** getRemaining **********************************)
getRemaining_countsAhead(key, limit) ==
    IF limit = -1 THEN -1
    ELSE IF limit = 0 THEN 0
    ELSE IF ~MapHas(requests, key) THEN limit
    ELSE IF Expired(requests[key]) THEN limit
    ELSE Max(0, limit - requests[key].count - 1)

\* getRemaining that reads an expired entry as if its window were open.
getRemaining_ignoresExpiry(key, limit) ==
    IF limit = -1 THEN -1
    ELSE IF limit = 0 THEN 0
    ELSE IF ~MapHas(requests, key) THEN limit
    ELSE Max(0, limit - requests[key].count)

\* ManboRateLimiter.getRemaining(key, limit): the value returned.
getRemaining(key, limit) ==
    IF limit = -1 THEN -1
    ELSE IF limit = 0 THEN 0
    ELSE IF ~MapHas(requests, key) THEN limit
    ELSE IF Expired(requests[key]) THEN limit
    ELSE Max(0, limit - requests[key].count)

(***************************** history *************************************)
\* last records the call a step made: its operation, arguments and result
\* (ok for check, remaining for getRemaining) and, in before, what the map
\* held for the keys the call is about (the whole map for clear).
NoCall == [op |-> "none", key |-> "", limit |-> 0, ok |-> FALSE, remaining |-> 0,
           before |-> MapClear]

Called(op, key, limit, ok, remaining, before) ==
    [op |-> op, key |-> key, limit |-> limit, ok |-> ok, remaining |-> remaining,
     before |-> before]

\* gate records the step an invocation made: which invocation, which step,
\* whether the step returned and, if so, the result it returned.  The error
\* texts are named: "unconfigured" (API address not configured),
\* "rateLimited" (too many requests, try later), "callFailed" (the catch
\* block's message) and "apiFailed" (result.msg or the default text).
NoStep == [proc |-> "", step |-> "none", returned |-> FALSE, success |-> FALSE,
           error |-> ""]

Returned(p, step, success, error) ==
    [proc |-> p, step |-> step, returned |-> TRUE, success |-> success, error |-> error]

Awaiting(p, step) ==
    [proc |-> p, step |-> step, returned |-> FALSE, success |-> FALSE, error |-> ""]

Idle == [p \in Procs |-> "idle"]

(***************************** actions *************************************)
Init ==
    /\ requests = MapClear
    /\ now = 0
    /\ rateLimit = -1
    /\ apiUrl = "undefined"
    /\ pc = Idle
    /\ last = NoCall
    /\ gate = NoStep
    /\ log = <<>>

\* Time passes between two calls.
Tick ==
    /\ \E t \in TimeGrid : t > now /\ now' = t
    /\ last' = NoCall
    /\ gate' = NoStep
    /\ UNCHANGED <<requests, rateLimit, apiUrl, pc, log>>

\* rateLimiter.check(key, limit)
Check(key, limit) ==
    LET r == check(key, limit) IN
    /\ requests' = r.requests
    /\ last' = Called("check", key, limit, r.ret, 0, Only(requests, key))
    /\ UNCHANGED <<now, rateLimit, apiUrl, pc, gate, log>>

GetRemaining_evictsExpired(key, limit) ==
    /\ requests' = IF MapHas(requests, key) /\ Expired(requests[key])
                   THEN MapDelete(requests, key) ELSE requests
    /\ last' = Called("getRemaining", key, limit, FALSE, getRemaining(key, limit),
                      Only(requests, key))
    /\ UNCHANGED <<now, rateLimit, apiUrl, pc, gate, log>>

\* rateLimiter.getRemaining(key, limit)
GetRemaining(key, limit) ==
    /\ last' = Called("getRemaining", key, limit, FALSE, getRemaining(key, limit),
                      Only(requests, key))
    /\ UNCHANGED <<requests, now, rateLimit, apiUrl, pc, gate, log>>

Reset_zeroesCount(key) ==
    /\ requests' = IF MapHas(requests, key)
                   THEN MapSet(requests, key, [count |-> 0,
                                               windowStart |-> requests[key].windowStart])
                   ELSE requests
    /\ last' = Called("reset", key, 0, FALSE, 0, Only(requests, key))
    /\ UNCHANGED <<now, rateLimit, apiUrl, pc, gate, log>>

\* rateLimiter.reset(key)
Reset(key) ==
    /\ requests' = MapDelete(requests, key)
    /\ last' = Called("reset", key, 0, FALSE, 0, Only(requests, key))
    /\ UNCHANGED <<now, rateLimit, apiUrl, pc, gate, log>>

Clear_expiredOnly ==
    /\ requests' = [k \in {x \in DOMAIN requests : ~Expired(requests[x])} |-> requests[k]]
    /\ last' = Called("clear", "", 0, FALSE, 0, requests)
    /\ UNCHANGED <<now, rateLimit, apiUrl, pc, gate, log>>

\* rateLimiter.clear()
Clear ==
    /\ requests' = MapClear
    /\ last' = Called("clear", "", 0, FALSE, 0, requests)
    /\ UNCHANGED <<now, rateLimit, apiUrl, pc, gate, log>>

Next ==
    \/ Tick
    \/ \E k \in Keys, l \in Limits : Check(k, l)
    \/ \E k \in Keys, l \in Limits : GetRemaining(k, l)
    \/ \E k \in Keys : Reset(k)
    \/ Clear

Spec == Init /\ [][Next]_vars

(***************************************************************************)
(* Logged runs: the limit is the configured one, fixed for the run, no     *)
(* entry is ever reset or cleared, and every check call is recorded in log *)
(* with its key, the instant it was made at and what it returned.          *)
(***************************************************************************)
InitWindow ==
    /\ requests = MapClear
    /\ now = 0
    /\ rateLimit \in 1..MaxRateLimit
    /\ apiUrl = "undefined"
    /\ pc = Idle
    /\ last = NoCall
    /\ gate = NoStep
    /\ log = <<>>

\* rateLimiter.check(key, config.manboRateLimit), recorded
CheckLogged(key) ==
    LET r == check(key, rateLimit) IN
    /\ Len(log) < MaxLog
    /\ requests' = r.requests
    /\ last' = Called("check", key, rateLimit, r.ret, 0, Only(requests, key))
    /\ log' = Append(log, [key |-> key, at |-> now, ok |-> r.ret])
    /\ UNCHANGED <<now, rateLimit, apiUrl, pc, gate>>

NextWindow ==
    \/ Tick
    \/ \E k \in Keys : CheckLogged(k)

SpecWindow == InitWindow /\ [][NextWindow]_vars

\* Logged runs under any configured limit other than -1: the settings form
\* takes any number, so the limit may lie below -1.
OtherLimits == {-3, -2, 0} \cup (1..MaxRateLimit)

InitOtherLimit ==
    /\ requests = MapClear
    /\ now = 0
    /\ rateLimit \in OtherLimits
    /\ apiUrl = "undefined"
    /\ pc = Idle
    /\ last = NoCall
    /\ gate = NoStep
    /\ log = <<>>

SpecOtherLimit == InitOtherLimit /\ [][NextWindow]_vars

(***************************************************************************)
(* The voice gate: generateManboVoice.  An invocation runs without         *)
(* interruption up to its first await, so the configuration reads, the     *)
(* limiter check and the call of fetch are one step; the settling of the   *)
(* fetch promise and of response.json() are one step each.                 *)
(***************************************************************************)
\* config.manboApiUrl?.trim(), by kind: "" for a blank string.
Trimmed(url) == IF url = "blank" THEN "empty" ELSE url

\* !apiUrl
Falsy(url) == url \in {"undefined", "empty"}

\* groupId ? `group:${groupId}` : 'global'
rateLimitKey(groupId) ==
    IF groupId = NoGroup \/ groupId = 0 THEN "global"
    ELSE IF groupId = 1 THEN "group:1"
    ELSE "group:2"

InitGate ==
    /\ requests = MapClear
    /\ now = 0
    /\ rateLimit \in ConfigLimits
    /\ apiUrl \in ApiUrls
    /\ pc = Idle
    /\ last = NoCall
    /\ gate = NoStep
    /\ log = <<>>

Generate_ignoresDenial(p, groupId) ==
    /\ pc[p] = "idle"
    /\ IF Falsy(Trimmed(apiUrl))
       THEN /\ gate' = Returned(p, "generate", FALSE, "unconfigured")
            /\ last' = NoCall
            /\ UNCHANGED <<requests, pc>>
       ELSE LET key == rateLimitKey(groupId)
                r == check(key, rateLimit)
            IN  /\ requests' = r.requests
                /\ last' = Called("check", key, rateLimit, r.ret, 0, Only(requests, key))
                /\ IF Trimmed(apiUrl) = "malformed"
                   THEN /\ gate' = Returned(p, "generate", FALSE, "callFailed")
                        /\ UNCHANGED pc
                   ELSE /\ pc' = [pc EXCEPT ![p] = "fetch"]
                        /\ gate' = Awaiting(p, "generate")
    /\ UNCHANGED <<now, rateLimit, apiUrl, log>>

\* generateManboVoice(ctx, text, groupId) up to its first await or return:
\* what it does to the limiter and to the invocation.
generateManboVoice(p, groupId) ==
    /\ pc[p] = "idle"
    /\ IF Falsy(Trimmed(apiUrl))
       THEN /\ gate' = Returned(p, "generate", FALSE, "unconfigured")
            /\ last' = NoCall
            /\ UNCHANGED <<requests, pc>>
       ELSE LET key == rateLimitKey(groupId)
                r == check(key, rateLimit)
            IN  /\ requests' = r.requests
                /\ last' = Called("check", key, rateLimit, r.ret, 0, Only(requests, key))
                /\ IF ~r.ret
                   THEN /\ gate' = Returned(p, "generate", FALSE, "rateLimited")
                        /\ UNCHANGED pc
                   ELSE IF Trimmed(apiUrl) = "malformed"
                   THEN \* new URL(apiUrl) throws inside the try block
                        /\ gate' = Returned(p, "generate", FALSE, "callFailed")
                        /\ UNCHANGED pc
                   ELSE /\ pc' = [pc EXCEPT ![p] = "fetch"]
                        /\ gate' = Awaiting(p, "generate")

\* An invocation of generateManboVoice starts.
Generate(p, groupId) ==
    /\ generateManboVoice(p, groupId)
    /\ UNCHANGED <<now, rateLimit, apiUrl, log>>

FetchOutcomes == {"rejected", "notOk", "ok"}

\* fetch settling with a refund: a failed call gives the budget back.
FetchSettles_refundsFailure(p, outcome) ==
    /\ pc[p] = "fetch"
    /\ IF outcome = "ok"
       THEN /\ pc' = [pc EXCEPT ![p] = "json"]
            /\ gate' = Awaiting(p, "fetchSettles")
            /\ UNCHANGED requests
       ELSE /\ pc' = [pc EXCEPT ![p] = "idle"]
            /\ gate' = Returned(p, "fetchSettles", FALSE, "callFailed")
            /\ requests' = MapClear
    /\ last' = NoCall
    /\ UNCHANGED <<now, rateLimit, apiUrl, log>>

\* await fetch(...) settles: the promise rejects, or resolves to a response
\* whose ok flag is false or true
FetchSettles(p, outcome) ==
    /\ pc[p] = "fetch"
    /\ IF outcome = "ok"
       THEN /\ pc' = [pc EXCEPT ![p] = "json"]
            /\ gate' = Awaiting(p, "fetchSettles")
       ELSE /\ pc' = [pc EXCEPT ![p] = "idle"]
            /\ gate' = Returned(p, "fetchSettles", FALSE, "callFailed")
    /\ last' = NoCall
    /\ UNCHANGED <<requests, now, rateLimit, apiUrl, log>>

JsonOutcomes == {"rejected", "code200url", "code200nourl", "otherCode"}

\* await response.json() settles: it rejects, or resolves to a body
JsonSettles(p, outcome) ==
    /\ pc[p] = "json"
    /\ pc' = [pc EXCEPT ![p] = "idle"]
    /\ gate' = IF outcome = "rejected" THEN Returned(p, "jsonSettles", FALSE, "callFailed")
               ELSE IF outcome = "code200url" THEN Returned(p, "jsonSettles", TRUE, "")
               ELSE Returned(p, "jsonSettles", FALSE, "apiFailed")
    /\ last' = NoCall
    /\ UNCHANGED <<requests, now, rateLimit, apiUrl, log>>

NextGate ==
    \/ Tick
    \/ \E p \in Procs, g \in GroupIds : Generate(p, g)
    \/ \E p \in Procs, o \in FetchOutcomes : FetchSettles(p, o)
    \/ \E p \in Procs, o \in JsonOutcomes : JsonSettles(p, o)

SpecGate == InitGate /\ [][NextGate]_vars

(***************************************************************************)
(* Logged gate runs: concurrent invocations with a positive configured     *)
(* limit and an API address set, every limiter check they make recorded.   *)
(***************************************************************************)
\* The invocations of a logged run come from one group or from no group.
RaceGroupIds == {NoGroup, 1}

InitRace ==
    /\ requests = MapClear
    /\ now = 0
    /\ rateLimit \in PositiveLimits
    /\ apiUrl \in {"url", "malformed"}
    /\ pc = Idle
    /\ last = NoCall
    /\ gate = NoStep
    /\ log = <<>>

\* An invocation of generateManboVoice starts; its limiter check is recorded.
GenerateLogged(p, groupId) ==
    /\ Len(log) < MaxLog
    /\ generateManboVoice(p, groupId)
    /\ log' = IF last'.op = "check"
              THEN Append(log, [key |-> last'.key, at |-> now, ok |-> last'.ok])
              ELSE log
    /\ UNCHANGED <<now, rateLimit, apiUrl>>

NextRace ==
    \/ Tick
    \/ \E p \in Procs, g \in RaceGroupIds : GenerateLogged(p, g)
    \/ \E p \in Procs, o \in FetchOutcomes : FetchSettles(p, o)
    \/ \E p \in Procs, o \in JsonOutcomes : JsonSettles(p, o)

SpecRace == InitRace /\ [][NextRace]_vars

(***************************************************************************)
(* The message handler in front of the gate, and the gate's other exported *)
(* functions.  A text is the sequence of its characters, the characters of *)
(* the command after the slash written "man" and "bo".  An event carries   *)
(* its message_type, its group_id (NoGroup when it has none) and its       *)
(* raw_message; a group message carries the id of its group, a private     *)
(* message carries a group_id when it comes from a temporary session       *)
(* opened through a group.                                                 *)
(***************************************************************************)
Command == <<"/", "man", "bo">>

Whitespace == {" "}

RawMessages ==
    { <<>>,
      <<" ", "/", "man", "bo", "ni">>,
      <<"/", "man", "bo", " ">>,
      <<"/", "man", "bo", "ni">>,
      <<"/", "man", "bo", " ", "ni", " ">> }

EventGroupIds == {NoGroup, 1, 2}

Events ==
    {e \in [message_type : {"group", "private"}, group_id : EventGroupIds,
            raw_message : RawMessages] :
        e.message_type = "group" => e.group_id # NoGroup}

\* s.startsWith(prefix)
StartsWith(s, prefix) ==
    Len(s) >= Len(prefix) /\ SubSeq(s, 1, Len(prefix)) = prefix

\* s.slice(n)
Slice(s, n) == IF n >= Len(s) THEN <<>> ELSE SubSeq(s, n + 1, Len(s))

\* s.trim()
Trim(s) ==
    LET kept == {i \in 1..Len(s) : s[i] \notin Whitespace} IN
    IF kept = {} THEN <<>>
    ELSE SubSeq(s, CHOOSE i \in kept : \A j \in kept : i <= j,
                   CHOOSE i \in kept : \A j \in kept : i >= j)

\* The handler's runs take one message at a time, with the API address left
\* blank or set and the limit unlimited, blocking or one request per window.
HandlerProcs == {"p1"}

HandlerLimits == {-1, 0, 1}

InitHandler ==
    /\ requests = MapClear
    /\ now = 0
    /\ rateLimit \in HandlerLimits
    /\ apiUrl \in {"blank", "url"}
    /\ pc = Idle
    /\ last = NoCall
    /\ gate = NoStep
    /\ log = <<>>

\* A handler that reaches the gate before it looks at the text of the command.
HandleMessage_gateBeforeText(p, event, enabled) ==
    LET rawMessage == event.raw_message
        messageType == event.message_type
        groupId == event.group_id
    IN  /\ pc[p] = "idle"
        /\ IF messageType = "group" /\ groupId \notin {NoGroup, 0} /\ ~enabled
           THEN /\ gate' = Returned(p, "handleMessage", FALSE, "groupDisabled")
                /\ last' = NoCall
                /\ UNCHANGED <<requests, pc>>
           ELSE IF ~StartsWith(rawMessage, Command)
           THEN /\ gate' = Returned(p, "handleMessage", FALSE, "notCommand")
                /\ last' = NoCall
                /\ UNCHANGED <<requests, pc>>
           ELSE generateManboVoice(p, groupId)
        /\ UNCHANGED <<now, rateLimit, apiUrl, log>>

\* handleMessage(ctx, event) up to its first await or return; enabled is the
\* answer of pluginState.isGroupEnabled for the event's group.  The replies
\* it sends afterwards and the processed-message counter do not touch the
\* limiter.  The error texts of its own returns are named "groupDisabled",
\* "notCommand" and "emptyText".
HandleMessage(p, event, enabled) ==
    LET rawMessage == event.raw_message
        messageType == event.message_type
        groupId == event.group_id
    IN  /\ pc[p] = "idle"
        /\ IF messageType = "group" /\ groupId \notin {NoGroup, 0} /\ ~enabled
           THEN /\ gate' = Returned(p, "handleMessage", FALSE, "groupDisabled")
                /\ last' = NoCall
                /\ UNCHANGED <<requests, pc>>
           ELSE IF ~StartsWith(rawMessage, Command)
           THEN /\ gate' = Returned(p, "handleMessage", FALSE, "notCommand")
                /\ last' = NoCall
                /\ UNCHANGED <<requests, pc>>
           ELSE IF Trim(Slice(rawMessage, 3)) = <<>>
           THEN /\ gate' = Returned(p, "handleMessage", FALSE, "emptyText")
                /\ last' = NoCall
                /\ UNCHANGED <<requests, pc>>
           ELSE generateManboVoice(p, groupId)
        /\ UNCHANGED <<now, rateLimit, apiUrl, log>>

\* getRateLimitRemaining(groupId)
GetRateLimitRemaining(groupId) == GetRemaining(rateLimitKey(groupId), rateLimit)

\* resetRateLimit(groupId)
ResetRateLimit(groupId) == Reset(rateLimitKey(groupId))

\* clearAllRateLimits()
ClearAllRateLimits == Clear

NextHandler ==
    \/ Tick
    \/ \E p \in HandlerProcs, e \in Events, enabled \in BOOLEAN :
           HandleMessage(p, e, enabled)
    \/ \E p \in HandlerProcs, o \in FetchOutcomes : FetchSettles(p, o)
    \/ \E p \in HandlerProcs, o \in JsonOutcomes : JsonSettles(p, o)
    \/ \E g \in EventGroupIds : GetRateLimitRemaining(g)
    \/ \E g \in EventGroupIds : ResetRateLimit(g)
    \/ ClearAllRateLimits

SpecHandler == InitHandler /\ [][NextHandler]_vars

\* The invocations that issue the downstream HTTP call in a step: those the
\* step brings to await fetch(...).
Fetched == {p \in Procs : pc[p] # "fetch" /\ pc'[p] = "fetch"}

\* The check calls on key recorded so far, oldest first.
CallsOn(key) == SelectSeq(log, LAMBDA e : e.key = key)

\* How many recorded checks on key returned true at an instant in [from, to).
AcceptedIn(key, from, to) ==
    Cardinality({i \in DOMAIN log :
        log[i].key = key /\ log[i].ok /\ log[i].at >= from /\ log[i].at < to})

(***************************************************************************)
(* Claims about single calls.  A step is recognised by the record it       *)
(* leaves in last'; unprimed variables are the state the call was made in. *)
(***************************************************************************)
IsCall(op, key, limit) == last'.op = op /\ last'.key = key /\ last'.limit = limit

\* C2: for every key and every reachable state, check(k, -1) returns true and
\* leaves the entries map exactly as it was, however often it is repeated;
\* getRemaining(k, -1) is -1 before and after, and changes nothing either.
C2_UnlimitedNeverTouchesState ==
    [][\A k \in Keys :
        /\ IsCall("check", k, -1) =>
              /\ last'.ok = TRUE
              /\ requests' = requests
              /\ getRemaining(k, -1) = -1
              /\ getRemaining(k, -1)' = -1
              /\ check(k, -1)'.ret = TRUE
        /\ IsCall("getRemaining", k, -1) =>
              /\ last'.remaining = -1
              /\ requests' = requests
      ]_vars

\* C2 witness: check(k, -1) has just returned true for a key that holds an
\* exhausted open entry, and the entry is still what it was.
C2_Witness ==
    \E k \in Keys :
        /\ last.op = "check" /\ last.key = k /\ last.limit = -1 /\ last.ok
        /\ MapHas(last.before, k) /\ last.before[k].count = MaxLimit
        /\ ~Expired(last.before[k])
        /\ requests[k] = last.before[k]

\* C3: for every key and every reachable state (an open or an expired entry
\* of the key included), check(k, 0) returns false and leaves the entries map
\* unchanged, and getRemaining(k, 0) returns 0.
C3_ZeroAlwaysDenies ==
    [][\A k \in Keys :
        /\ IsCall("check", k, 0) =>
              /\ last'.ok = FALSE
              /\ requests' = requests
              /\ getRemaining(k, 0) = 0
              /\ getRemaining(k, 0)' = 0
        /\ IsCall("getRemaining", k, 0) =>
              /\ last'.remaining = 0
              /\ requests' = requests
      ]_vars

\* C3 witness: check(k, 0) has just returned false for a key whose entry,
\* left by earlier calls with a positive limit, has expired and is kept.
C3_Witness ==
    \E k \in Keys :
        /\ last.op = "check" /\ last.key = k /\ last.limit = 0 /\ ~last.ok
        /\ MapHas(last.before, k) /\ Expired(last.before[k])
        /\ requests[k] = last.before[k]

\* C5: window reset.  For L >= 1 and a key whose entry has any count, a
\* check(k, L) made when now - windowStart >= 60000 returns true and replaces
\* the entry by count = 1, windowStart = now; getRemaining(k, L) read inside
\* the new window is then L - 1.  At now - windowStart = 59999 the check does
\* not reset: windowStart stays and the count is only ever incremented.
C5_WindowReset ==
    [][\A k \in Keys, L \in PositiveLimits :
        /\ (IsCall("check", k, L) /\ MapHas(requests, k)
                /\ now - requests[k].windowStart >= windowSize) =>
              /\ last'.ok = TRUE
              /\ requests'[k] = [count |-> 1, windowStart |-> now]
              /\ getRemaining(k, L)' = L - 1
        /\ (IsCall("check", k, L) /\ MapHas(requests, k)
                /\ now - requests[k].windowStart = windowSize - 1) =>
              /\ requests'[k].windowStart = requests[k].windowStart
              /\ requests'[k].count >= requests[k].count
              /\ last'.ok = (requests[k].count < L)
        /\ (IsCall("getRemaining", k, L) /\ last.op = "check" /\ last.key = k
                /\ last.limit = L /\ MapHas(last.before, k)
                /\ now - last.before[k].windowStart >= windowSize) =>
              last'.remaining = L - 1
      ]_vars

\* C5 witness: a key exhausted with limit 2 was checked again exactly 60000 ms
\* after its window opened; the check was accepted and the entry restarted.
C5_Witness ==
    \E k \in Keys :
        /\ last.op = "check" /\ last.key = k /\ last.limit = 2 /\ last.ok
        /\ MapHas(last.before, k) /\ last.before[k].count = 2
        /\ now - last.before[k].windowStart = windowSize
        /\ requests[k] = [count |-> 1, windowStart |-> now]
        /\ getRemaining(k, 2) = 1

\* C6: getRemaining is read-only.  For every key, limit and reachable state it
\* leaves the entries map unchanged, also when the entry of the key has
\* expired (it reports the limit and keeps the stale entry), so the result and
\* the effect of a following check, for any key and limit, stay what they were.
C6_GetRemainingReadOnly ==
    [][\A k \in Keys, l \in Limits :
        IsCall("getRemaining", k, l) =>
            /\ requests' = requests
            /\ last'.remaining = getRemaining(k, l)
            /\ getRemaining(k, l)' = getRemaining(k, l)
            /\ \A k2 \in Keys, l2 \in Limits : check(k2, l2)' = check(k2, l2)
            /\ (l >= 1 /\ MapHas(requests, k) /\ Expired(requests[k])) =>
                  last'.remaining = l
      ]_vars

\* C6 witness: getRemaining has just reported the full limit for a key whose
\* expired, exhausted entry is still stored.
C6_Witness ==
    \E k \in Keys :
        /\ last.op = "getRemaining" /\ last.key = k /\ last.limit = MaxLimit
        /\ last.remaining = MaxLimit
        /\ MapHas(requests, k) /\ Expired(requests[k])
        /\ requests[k].count = MaxLimit

\* C7: keys never interfere.  check(k, limit), getRemaining(k, limit) and
\* reset(k) leave the entry (presence, count, windowStart) of every other key
\* unchanged, and with it what check and getRemaining on that key return
\* (a call that leaves the whole map and the clock as they were changes no
\* result, so the results are compared for the calls that changed the map).
C7_KeysIndependent ==
    [][last'.op \in {"check", "getRemaining", "reset"} =>
            /\ now' = now
            /\ \/ requests' = requests
               \/ \A k2 \in Keys \ {last'.key} :
                    /\ Only(requests', k2) = Only(requests, k2)
                    /\ \A l \in Limits :
                          /\ check(k2, l)'.ret = check(k2, l).ret
                          /\ getRemaining(k2, l)' = getRemaining(k2, l)
      ]_vars

\* C7 witness: "group:1" is exhausted and has just been denied while
\* "group:2" and "global" hold entries with budget left.
C7_Witness ==
    /\ last.op = "check" /\ last.key = "group:1" /\ last.limit = MaxLimit /\ ~last.ok
    /\ MapHas(requests, "group:2") /\ MapHas(requests, "global")
    /\ getRemaining("group:2", MaxLimit) > 0
    /\ getRemaining("global", MaxLimit) > 0

\* C8: reset(k) removes the entry of k if present and is a no-op if absent.
\* Right after it, for every L >= 1, getRemaining(k, L) = L and check(k, L)
\* returns true and opens a window with count = 1, whatever k had consumed;
\* a second reset(k) changes nothing.
C8_ResetRestoresKey ==
    [][\A k \in Keys :
        (last'.op = "reset" /\ last'.key = k) =>
            /\ requests' = MapDelete(requests, k)
            /\ ~MapHas(requests', k)
            /\ (~MapHas(requests, k) => requests' = requests)
            /\ (last.op = "reset" /\ last.key = k) => requests' = requests
            /\ \A L \in PositiveLimits :
                  /\ getRemaining(k, L)' = L
                  /\ check(k, L)'.ret = TRUE
                  /\ check(k, L)'.requests[k] = [count |-> 1, windowStart |-> now']
      ]_vars

\* C8 witness: reset has just removed an exhausted, still open entry.
C8_Witness ==
    \E k \in Keys :
        /\ last.op = "reset" /\ last.key = k
        /\ MapHas(last.before, k) /\ last.before[k].count = MaxLimit
        /\ ~Expired(last.before[k])
        /\ ~MapHas(requests, k)
        /\ getRemaining(k, MaxLimit) = MaxLimit

\* C9: clear() empties the entries map in one step.  Right after it, for every
\* key and every L >= 1, getRemaining(k, L) = L; on an empty map, or applied
\* a second time, it yields the same empty map.
C9_ClearRestoresAll ==
    [][last'.op = "clear" =>
            /\ requests' = MapClear
            /\ DOMAIN requests' = {}
            /\ \A k \in Keys, L \in PositiveLimits :
                  /\ getRemaining(k, L)' = L
                  /\ check(k, L)'.ret = TRUE
            /\ (requests = MapClear \/ last.op = "clear") => requests' = requests
      ]_vars

\* C9 witness: clear has just emptied a map that tracked all three keys, one
\* of them exhausted.
C9_Witness ==
    /\ last.op = "clear"
    /\ DOMAIN last.before = Keys
    /\ \E k \in Keys : last.before[k].count = MaxLimit /\ ~Expired(last.before[k])
    /\ requests = MapClear
    /\ \A k \in Keys : getRemaining(k, MaxLimit) = MaxLimit

(***************************************************************************)
(* Claims about runs with a fixed limit, checked under SpecWindow.         *)
(***************************************************************************)
\* C1: with a fixed limit L >= 1, a clock that never goes back and no reset or
\* clear, the stored count of a key never exceeds L; at most L checks return
\* true between the instant its window was opened and the instant it expires,
\* 60000 ms later; and a check made while the window is open and the count is
\* L returns false.
C1_BudgetPerWindow ==
    \A k \in Keys :
        MapHas(requests, k) =>
            /\ requests[k].count <= rateLimit
            /\ AcceptedIn(k, requests[k].windowStart,
                          requests[k].windowStart + windowSize) <= rateLimit
            /\ (~Expired(requests[k]) /\ requests[k].count = rateLimit) =>
                  /\ check(k, rateLimit).ret = FALSE
                  /\ check(k, rateLimit).requests = requests
            /\ (last.op = "check" /\ last.key = k /\ MapHas(last.before, k)
                    /\ now - last.before[k].windowStart < windowSize
                    /\ last.before[k].count = rateLimit) => ~last.ok

\* C1 witness: with limit 2, two checks of a key were accepted and a third,
\* made 59999 ms after the window opened, has just been denied.
C1_Witness ==
    \E k \in Keys :
        /\ rateLimit = 2
        /\ CallsOn(k) = <<[key |-> k, at |-> 0, ok |-> TRUE],
                          [key |-> k, at |-> windowSize - 1, ok |-> TRUE],
                          [key |-> k, at |-> windowSize - 1, ok |-> FALSE]>>
        /\ last.op = "check" /\ last.key = k /\ ~last.ok
        /\ requests[k] = [count |-> 2, windowStart |-> 0]

\* C4: for a key with no entry and a limit L >= 1, as long as the calls
\* check(k, L) are made less than 60000 ms after the first one, call i returns
\* true exactly when i <= L, and getRemaining(k, L) read after call i, still
\* inside the window, is max(0, L - i): for L = 3 the calls return true, true,
\* true, false and the remaining budget reads 2, 1, 0, 0.
C4_FirstWindowSequence ==
    \A k \in Keys :
        LET calls == CallsOn(k)
            n == Len(calls)
        IN  n >= 1 =>
              /\ \A i \in 1..n :
                    (calls[i].at - calls[1].at < windowSize) =>
                        (calls[i].ok <=> i <= rateLimit)
              /\ (now - calls[1].at < windowSize) =>
                    /\ getRemaining(k, rateLimit) = Max(0, rateLimit - n)
                    /\ (rateLimit = 3 /\ n <= 4) =>
                          getRemaining(k, 3) = <<2, 1, 0, 0>>[n]

\* C4 witness: with limit 3 a fresh key was checked four times inside one
\* window; the calls returned true, true, true, false and nothing remains.
C4_Witness ==
    \E k \in Keys :
        /\ rateLimit = 3
        /\ Len(CallsOn(k)) = 4
        /\ [i \in 1..4 |-> CallsOn(k)[i].ok] = <<TRUE, TRUE, TRUE, FALSE>>
        /\ now - CallsOn(k)[1].at = windowSize - 1
        /\ getRemaining(k, 3) = 0

(***************************************************************************)
(* Claims about the voice gate, checked under SpecGate.                    *)
(***************************************************************************)
\* C10 as stated: in generateManboVoice the limiter check comes before the
\* downstream HTTP call.  When check(key, limit) returns false, no downstream
\* call is made and the invocation returns at once, without waiting or
\* retrying, a failure carrying the rate-limited message; when check returns
\* true, exactly one downstream call is made for that check; and no
\* downstream call is made except behind a check that returned true.
C10_ExactlyOneCallPerPass ==
    [][/\ (gate'.step = "generate" /\ last'.op = "check") =>
              /\ ~last'.ok =>
                    /\ Fetched = {}
                    /\ pc' = pc
                    /\ gate'.returned /\ ~gate'.success
                    /\ gate'.error = "rateLimited"
              /\ last'.ok => Fetched = {gate'.proc}
       /\ Fetched # {} =>
              /\ gate'.step = "generate"
              /\ last'.op = "check" /\ last'.ok
      ]_vars

\* C10, amended: as above, except that a check that returned true is followed
\* by exactly one downstream call when new URL(apiUrl) accepts the configured
\* address, and by none when it throws: the invocation then returns the catch
\* block's failure.  In no case is more than one call made for a check.
C10_CheckGatesTheCall ==
    [][/\ (gate'.step = "generate" /\ last'.op = "check") =>
              /\ ~last'.ok =>
                    /\ Fetched = {}
                    /\ pc' = pc
                    /\ gate'.returned /\ ~gate'.success
                    /\ gate'.error = "rateLimited"
              /\ (last'.ok /\ Trimmed(apiUrl) # "malformed") =>
                    /\ Fetched = {gate'.proc}
                    /\ ~gate'.returned
              /\ (last'.ok /\ Trimmed(apiUrl) = "malformed") =>
                    /\ Fetched = {}
                    /\ gate'.returned /\ ~gate'.success
                    /\ gate'.error = "callFailed"
       /\ Fetched # {} =>
              /\ gate'.step = "generate"
              /\ last'.op = "check" /\ last'.ok
       /\ Cardinality(Fetched) <= 1
      ]_vars

\* C10 witness: one invocation passed the check and awaits its fetch; a second
\* one on the same key has just been denied and has returned the rate-limited
\* failure without a call.
C10_Witness ==
    \E p \in Procs :
        /\ rateLimit = 1
        /\ last.op = "check" /\ ~last.ok
        /\ gate = Returned(p, "generate", FALSE, "rateLimited")
        /\ pc[p] = "idle"
        /\ \E q \in Procs \ {p} : pc[q] = "fetch"
        /\ requests[last.key].count = 1

\* C18: getRemaining and check agree.  For every key, every limit L >= 1 and
\* every reachable state, at one clock value, getRemaining(k, L) > 0 exactly
\* when check(k, L) would return true, and getRemaining(k, L) lies in 0..L;
\* an accepted check(k, L), inside an open window as well as one that opens a
\* window, lowers getRemaining(k, L) by exactly 1.
C18_RemainingAgreesWithCheck ==
    /\ [](\A k \in Keys, l \in PositiveLimits :
              /\ (getRemaining(k, l) > 0) <=> check(k, l).ret
              /\ getRemaining(k, l) \in 0..l)
    /\ [][\A k \in Keys, l \in PositiveLimits :
              (IsCall("check", k, l) /\ last'.ok) =>
                  getRemaining(k, l)' = getRemaining(k, l) - 1
          ]_vars

\* C18 witness: check(k, 2) has just been accepted inside the window that an
\* earlier check opened, and took the remaining budget from 1 to 0; the next
\* check(k, 2) would be denied.
C18_Witness ==
    \E k \in Keys :
        /\ last.op = "check" /\ last.key = k /\ last.limit = 2 /\ last.ok
        /\ MapHas(last.before, k)
        /\ last.before[k].count = 1
        /\ now - last.before[k].windowStart = windowSize - 1
        /\ getRemaining(k, 2) = 0
        /\ ~check(k, 2).ret

\* C15: a denied check leaves the entry of its key as it was, same count and
\* same windowStart; so with a limit L >= 1 and an advancing clock a key
\* exhausted in a window opened at s is accepted again by the first check made
\* at any time >= s + 60000, however many checks were denied in between, and
\* no key is denied for ever: a check is denied only when L checks of the key
\* were accepted less than 60000 ms before it.
C15_DenialChangesNothing ==
    \A k \in Keys :
        LET calls == CallsOn(k) IN
        /\ (last.op = "check" /\ last.key = k /\ ~last.ok) =>
                Only(requests, k) = last.before
        /\ (last.op = "check" /\ last.key = k /\ MapHas(last.before, k)
                /\ now >= last.before[k].windowStart + windowSize) =>
                /\ last.ok
                /\ requests[k] = [count |-> 1, windowStart |-> now]
        /\ \A i \in 1..Len(calls) :
                ~calls[i].ok =>
                    Cardinality({j \in 1..(i - 1) :
                        calls[j].ok /\ calls[i].at - calls[j].at < windowSize})
                      >= rateLimit

\* C15 witness: with limit 1 a key was accepted at 0, denied at 0 and again
\* 1 ms before its window expired, and has just been accepted at 60000.
C15_Witness ==
    \E k \in Keys :
        /\ rateLimit = 1
        /\ CallsOn(k) = <<[key |-> k, at |-> 0, ok |-> TRUE],
                          [key |-> k, at |-> 0, ok |-> FALSE],
                          [key |-> k, at |-> windowSize - 1, ok |-> FALSE],
                          [key |-> k, at |-> windowSize, ok |-> TRUE]>>
        /\ last.op = "check" /\ last.key = k /\ last.ok
        /\ last.before[k] = [count |-> 1, windowStart |-> 0]
        /\ requests[k] = [count |-> 1, windowStart |-> windowSize]

C17_OtherLimitsBoundAccepts ==
    \A k \in Keys :
        MapHas(requests, k) =>
            AcceptedIn(k, requests[k].windowStart,
                       requests[k].windowStart + windowSize) <= Max(0, rateLimit)

(***************************************************************************)
(* Claims about concurrent invocations, checked under SpecRace.            *)
(***************************************************************************)
\* The invocations that have passed the gate and not yet returned.
InFlight == {p \in Procs : pc[p] # "idle"}

\* C11: when invocations of generateManboVoice on one key with one limit
\* L >= 1 run concurrently, interleaved at their await points in any order,
\* at most L of them pass the gate inside one window: the passes recorded
\* since the window opened are exactly the entry's count, which never exceeds
\* L, so no increment is lost between two invocations; an invocation is in
\* flight only behind a recorded pass; and the read, the decision and the
\* increment of a check are one step, which moves no other invocation.
C11_AtMostLimitPassTheGate ==
    /\ [](/\ \A k \in Keys :
               MapHas(requests, k) =>
                   /\ AcceptedIn(k, requests[k].windowStart,
                                 requests[k].windowStart + windowSize)
                         = requests[k].count
                   /\ requests[k].count <= rateLimit
          /\ Cardinality(InFlight)
                <= Cardinality({i \in DOMAIN log : log[i].ok}))
    /\ [][(gate'.step = "generate" /\ last'.op = "check") =>
              LET k == last'.key
                  open == MapHas(requests, k) /\ ~Expired(requests[k])
              IN  /\ last'.ok <=> (~open \/ requests[k].count < rateLimit)
                  /\ last'.ok =>
                        requests'[k].count = IF open THEN requests[k].count + 1
                                                     ELSE 1
                  /\ \A q \in Procs \ {gate'.proc} : pc'[q] = pc[q]
          ]_vars

\* C11 witness: with limit 2, two invocations passed the gate on one key at
\* the same instant; one of them has returned and started again, and was
\* denied while the other is still awaiting its response body.
C11_Witness ==
    \E k \in Keys, p \in Procs :
        /\ rateLimit = 2
        /\ [i \in 1..Len(CallsOn(k)) |-> CallsOn(k)[i].ok] = <<TRUE, TRUE, FALSE>>
        /\ CallsOn(k)[1].at = CallsOn(k)[3].at
        /\ gate = Returned(p, "generate", FALSE, "rateLimited")
        /\ \E q \in Procs \ {p} : pc[q] = "json"
        /\ requests[k].count = 2

C13_EntriesCountAtLeastOne ==
    /\ [](\A k \in Keys : MapHas(requests, k) => requests[k].count >= 1)
    /\ [][\A k \in Keys :
              (MapHas(requests', k) /\ ~MapHas(requests, k)) =>
                  /\ last'.op = "check" /\ last'.key = k /\ last'.ok
                  /\ requests'[k].count = 1
          ]_vars

\* C13 witness: at 60000 a key that had no entry has just got one, with
\* count 1, from an accepted check, while another key holds count 2.
C13_Witness ==
    \E k \in Keys, j \in Keys :
        /\ j # k
        /\ last.op = "check" /\ last.key = k /\ last.ok
        /\ ~MapHas(last.before, k)
        /\ MapHas(requests, k)
        /\ requests[k] = [count |-> 1, windowStart |-> windowSize]
        /\ MapHas(requests, j) /\ requests[j].count = 2

(***************************************************************************)
(* Claims about the message handler, checked under SpecHandler.  A step is *)
(* the handling of an event when it satisfies HandleMessage for it.        *)
(***************************************************************************)
\* C14: the gate derives the key "group:<groupId>" for a request that
\* originates in a group context and "global" otherwise, for
\* generateManboVoice, getRateLimitRemaining and resetRateLimit alike: the
\* check made for a group message is on the key of its group, so that two
\* groups never share a budget and a group request never consumes the global
\* one, and the check made for any message that is not a group message is on
\* "global"; the two other functions address the key of the group they are
\* given, and "global" when given none.
C14_KeyFollowsContext ==
    [][/\ \A p \in HandlerProcs, e \in Events, enabled \in BOOLEAN :
              (HandleMessage(p, e, enabled) /\ last'.op = "check") =>
                  last'.key = IF e.message_type = "group"
                              THEN <<"group:1", "group:2">>[e.group_id]
                              ELSE "global"
       /\ \A g \in EventGroupIds :
              (GetRateLimitRemaining(g) \/ ResetRateLimit(g)) =>
                  last'.key = IF g = NoGroup THEN "global"
                              ELSE <<"group:1", "group:2">>[g]
      ]_vars

(***************************************************************************)
(* Claims about the outcomes of the downstream call, checked under         *)
(* SpecGate.                                                               *)
(***************************************************************************)
\* C19: no refund.  Once check has returned true inside generateManboVoice
\* the unit of budget stays consumed whatever comes of the downstream call: a
\* rejected fetch, a non-OK status, a body that cannot be read, a code other
\* than 200, a missing url, or new URL throwing before the call.  No step
\* that settles a call changes the map, and no step of an invocation removes
\* an entry or lowers its count, except a check that finds the entry expired
\* and opens a new window; so failed calls exhaust a key as successful ones do.
C19_NoRefund ==
    [][/\ gate'.step \in {"fetchSettles", "jsonSettles"} => requests' = requests
       /\ (gate'.step = "generate" /\ last'.op = "check" /\ last'.ok
              /\ rateLimit >= 1) =>
              /\ MapHas(requests', last'.key)
              /\ requests'[last'.key].count
                    = IF MapHas(requests, last'.key) /\ ~Expired(requests[last'.key])
                      THEN requests[last'.key].count + 1 ELSE 1
       /\ \A k \in Keys :
              MapHas(requests, k) =>
                  /\ MapHas(requests', k)
                  /\ \/ requests'[k].count >= requests[k].count
                     \/ /\ Expired(requests[k])
                        /\ last'.op = "check" /\ last'.key = k /\ last'.ok
                        /\ requests'[k] = [count |-> 1, windowStart |-> now]
      ]_vars

\* C19 witness: with limit 2 and an API address that new URL rejects, every
\* call that passed the check failed; two of them have used up the key, and a
\* third invocation, 59999 ms into the window, has just been denied.
C19_Witness ==
    \E p \in Procs :
        /\ rateLimit = 2
        /\ apiUrl = "malformed"
        /\ gate = Returned(p, "generate", FALSE, "rateLimited")
        /\ last.op = "check" /\ ~last.ok
        /\ now = windowSize - 1
        /\ requests[last.key] = [count |-> 2, windowStart |-> 0]

\* C20: requests rejected before the gate consume no budget.  The handling of
\* a message from a group that is not enabled, of a message that does not
\* start with the command, of a command with empty text, and a call of
\* generateManboVoice with no API address configured all return without
\* calling check and leave the map of entries as it was.  (A step of the
\* gate's other exported functions leaves gate as the handler set it and
\* records its own call in last.)
C20_RejectedBeforeGate ==
    [][LET untouched == requests' = requests /\ last'.op = "none" /\ pc' = pc
           api == last'.op \in {"getRemaining", "reset", "clear"}
           rejected(e, enabled) ==
               \/ e.message_type = "group" /\ ~enabled
               \/ Len(e.raw_message) < 3
               \/ <<e.raw_message[1], e.raw_message[2], e.raw_message[3]>>
                     # <<"/", "man", "bo">>
               \/ \A i \in 4..Len(e.raw_message) : e.raw_message[i] = " "
               \/ apiUrl \in {"undefined", "blank"}
       IN  /\ (gate'.step = "handleMessage" /\ ~api) => untouched
           /\ (gate'.step = "generate" /\ gate'.error = "unconfigured" /\ ~api) =>
                  untouched
           /\ \/ untouched /\ gate'.returned
              \/ \A p \in HandlerProcs, e \in Events, enabled \in BOOLEAN :
                     rejected(e, enabled) => ~HandleMessage(p, e, enabled)
      ]_vars

\* C20 witness: with limit 1 the key of a group was used up by a command; a
\* command with only blanks for text has just been handled and has returned
\* before the gate, and the entry still counts one request.
C20_Witness ==
    \E p \in HandlerProcs :
        /\ rateLimit = 1
        /\ apiUrl = "url"
        /\ gate = Returned(p, "handleMessage", FALSE, "emptyText")
        /\ last = NoCall
        /\ MapHas(requests, "group:1")
        /\ requests["group:1"] = [count |-> 1, windowStart |-> 0]
        /\ now = windowSize - 1

=============================================================================
